---- MODULE Spec2Model ----
(***************************************************************************)
(* A model of the dataflow-graph node of src/src/Node.ts and of the       *)
(* middleware executor of src/src/util.ts.                                 *)
(*                                                                         *)
(* The JavaScript run-time is modelled at the granularity the code's       *)
(* behaviour depends on: a synchronous call stack (callStack), the         *)
(* microtask queue that resumes suspended async functions (microtasks),    *)
(* and one record per invocation of an async function (acts): a touch,     *)
(* a continuation next(), or a middleware step.  An invocation's record    *)
(* is also its promise: status is pending while it is running or           *)
(* suspended, and resolved or rejected once it has settled.                *)
(***************************************************************************)
EXTENDS Integers, Sequences, FiniteSets, TLC

\* ------------------------------------------------------------------ bounds

MaxStack == 2       \* steps a node's stack may hold
MaxTouches == 2     \* touch calls made by the embedding program
MaxSize == 3        \* steps, links and sinks the nodes hold together
MaxActs == 15       \* invocations of async functions in one behaviour
MaxCallStack == 2   \* frames of explore the engine's call stack holds

\* ------------------------------------------------------------------ values

Nodes == {"A", "B", "C"}

\* ShouldActivate<T> = ActivateFn<T> | true.  The functions the model draws:
\* pos is (node, ctx) => ctx.n > 0, never returns false, throws raises.
None == "undefined"
Always == "true"
PredFns == {"pos", "never", "throws"}
Preds == {Always} \cup PredFns
OptPreds == {None} \cup Preds

\* Sink<T> = (ctx) => MaybePromise<void>.  Three distinct function
\* references: log returns, boom throws, reject returns a rejected promise.
Sinks == {"log", "boom", "reject"}

\* Processor<T> = (ctx, next) => Promise<void>.  Each kind is an async
\* function, given by the instructions of its body:
\*   mut     ctx.n += 10
\*   call    p = next()                 (not awaited)
\*   await   await p                    (a rejection of p is rethrown)
\*   try     try { await p; return } catch { }
\*   throw   throw new Error()
\*   sleep   await a timer
StepKinds ==
  {"pass", "stop", "throw", "passThrow", "forget", "twice", "retry", "slow"}

Script(kind) ==
  CASE kind = "pass"      -> <<"mut", "call", "await">>
    [] kind = "stop"      -> <<"mut">>
    [] kind = "throw"     -> <<"throw">>
    [] kind = "passThrow" -> <<"call", "await", "throw">>
    [] kind = "forget"    -> <<"call">>
    [] kind = "twice"     -> <<"call", "await", "call", "await">>
    [] kind = "retry"     -> <<"call", "try", "call", "await">>
    [] kind = "slow"      -> <<"sleep", "mut", "call", "await">>

\* The values of ctx.n the embedding program passes to touch.
CtxInit == {0, 5}

VARIABLES
  shouldActivate,  \* node -> the node's stored activation predicate
  stack,           \* node -> #stack, the sequence of step kinds
  outputs,         \* node -> #outputs, a Map in insertion order: <<[node, pred]>>
  sinks,           \* node -> #sinks, a Set in insertion order
  ctx,             \* the context objects: ctx[c] is the field n of object c
  acts,            \* the invocations of async functions, each its own promise
  callStack,       \* the synchronous call stack, innermost first
  microtasks,      \* the microtask queue: suspended invocations to resume
  log,             \* history: what has been executed, in order
  lastLink,        \* history: node -> target -> the predicate given to the last
                   \* link call, and whether link was called 0, 1 or more times
  removed,         \* history: node -> the sinks removed from the node and not
                   \* added again since
  explored,        \* the tree the last call of explore has returned
  exploring,       \* the call of explore in progress: its stack of frames
  id               \* the id of every node: readonly after construction

vars == <<shouldActivate, stack, outputs, sinks, ctx, acts, callStack,
          microtasks, log, lastLink, removed, explored, exploring, id>>

config == <<shouldActivate, stack, outputs, sinks, lastLink, removed, explored, exploring, id>>
runtime == <<ctx, acts, callStack, microtasks, log>>

\* ------------------------------------------------------------------ errors

\* errors.ts: both error classes extend AggregateError and add ctx.
NoError == [name |-> "none", errors |-> <<>>, ctx |-> 0, t |-> 0, k |-> 0]

\* new Error() thrown by the user's function running in touch t (step k,
\* or k = 0 for a predicate or a sink).
UserError(t, k) == [name |-> "Error", errors |-> <<>>, ctx |-> 0, t |-> t, k |-> k]

MiddlewareError(errors, c) ==
  [name |-> "MiddlewareError", errors |-> errors, ctx |-> c, t |-> 0, k |-> 0]

PipelineError(errors, c) ==
  [name |-> "PipelineError", errors |-> errors, ctx |-> c, t |-> 0, k |-> 0]

\* ------------------------------------------------------------------ Node

\* Node.shouldActivate(shouldActivate, node, ctx): "true", "false", or
\* "throws" when the predicate function raises.
ShouldActivate(pred, node, n) ==
  IF pred = None \/ pred = Always THEN "true"
  ELSE CASE pred = "pos"    -> IF n > 0 THEN "true" ELSE "false"
         [] pred = "never"  -> "false"
         [] pred = "throws" -> "throws"

\* A touch that would not look at the override it is given.
ActivateFn_IgnoresOverride(override, node) == shouldActivate[node]

\* touch: const activateFn = shouldActivate ?? this.shouldActivate
ActivateFn(override, node) ==
  IF override = None THEN shouldActivate[node] ELSE override

\* A map that would add an entry at every set.
MapSet_Appends(m, node, pred) == Append(m, [node |-> node, pred |-> pred])

\* Map.prototype.set on #outputs: an existing key keeps its position.
MapSet(m, node, pred) ==
  IF \E i \in 1..Len(m) : m[i].node = node
  THEN [i \in 1..Len(m) |->
          IF m[i].node = node THEN [node |-> node, pred |-> pred] ELSE m[i]]
  ELSE Append(m, [node |-> node, pred |-> pred])

MapDelete(m, node) == SelectSeq(m, LAMBDA e : e.node # node)

\* Set.prototype.add / delete on #sinks.
SetAdd(s, x) == IF \E i \in 1..Len(s) : s[i] = x THEN s ELSE Append(s, x)

\* A set that would keep what is deleted from it.
SetDelete_Keeps(s, x) == s

SetDelete(s, x) == SelectSeq(s, LAMBDA y : y # x)

\* The embedding program calls the configuration methods between two
\* synchronous runs of the library's code.
Idle == callStack = <<>>

ConfigCall == Idle /\ UNCHANGED runtime

\* What the nodes hold: the model lets the embedding program add a step,
\* a link or a sink while this is below MaxSize.
Size ==
  LET Sum[S \in SUBSET Nodes] ==
        IF S = {} THEN 0
        ELSE LET n == CHOOSE n \in S : TRUE
             IN Len(stack[n]) + Len(outputs[n]) + Len(sinks[n]) + Sum[S \ {n}]
  IN Sum[Nodes]

Room == Size < MaxSize

use(node, kind) ==
  /\ ConfigCall
  /\ Room
  /\ Len(stack[node]) < MaxStack
  /\ stack' = [stack EXCEPT ![node] = Append(@, kind)]
  /\ UNCHANGED <<shouldActivate, outputs, sinks, lastLink, removed, explored, exploring, id>>

link(node, target, pred) ==
  /\ ConfigCall
  /\ Room
  /\ outputs' = [outputs EXCEPT
                   ![node] = MapSet(@, target, IF pred = None THEN Always ELSE pred)]
  /\ UNCHANGED <<shouldActivate, stack, sinks, removed, explored, exploring, id>>

\* The history of the link calls: what the call link(node, target, pred)
\* adds to it.
Linked(node, target, pred) ==
  lastLink' = [lastLink EXCEPT ![node][target] =
                 [pred |-> pred, calls |-> IF @.calls < 2 THEN @.calls + 1 ELSE 2]]

unlink(node, target) ==
  /\ ConfigCall
  /\ outputs' = [outputs EXCEPT ![node] = MapDelete(@, target)]
  /\ UNCHANGED <<shouldActivate, stack, sinks, lastLink, removed, explored, exploring, id>>

unlinkAll(node) ==
  /\ ConfigCall
  /\ outputs' = [outputs EXCEPT ![node] = <<>>]
  /\ UNCHANGED <<shouldActivate, stack, sinks, lastLink, removed, explored, exploring, id>>

sink(node, s) ==
  /\ ConfigCall
  /\ Room
  /\ sinks' = [sinks EXCEPT ![node] = SetAdd(@, s)]
  /\ UNCHANGED <<shouldActivate, stack, outputs, lastLink, explored, exploring, id>>

unsink(node, s) ==
  /\ ConfigCall
  /\ sinks' = [sinks EXCEPT ![node] = SetDelete(@, s)]
  /\ UNCHANGED <<shouldActivate, stack, outputs, lastLink, explored, exploring, id>>

clearStack(node) ==
  /\ ConfigCall
  /\ stack' = [stack EXCEPT ![node] = <<>>]
  /\ UNCHANGED <<shouldActivate, outputs, sinks, lastLink, removed, explored, exploring, id>>

clearSinks(node) ==
  /\ ConfigCall
  /\ sinks' = [sinks EXCEPT ![node] = <<>>]
  /\ UNCHANGED <<shouldActivate, stack, outputs, lastLink, explored, exploring, id>>

\* The history of the sinks: what the calls sink(s), unsink(s) and
\* clearSinks() of a node add to it.
Sunk(node, s) == removed' = [removed EXCEPT ![node] = @ \ {s}]

Unsunk(node, s) == removed' = [removed EXCEPT ![node] = @ \cup {s}]

Cleared(node) ==
  removed' = [removed EXCEPT
                ![node] = @ \cup {sinks[node][i] : i \in 1..Len(sinks[node])}]

\* A Record<string, ...>: tree[key] = value adds the key or replaces what the
\* key held.
RecordSet(tree, key, value) ==
  [k \in DOMAIN tree \cup {key} |-> IF k = key THEN value ELSE tree[k]]

EmptyRecord == [k \in {} |-> {}]

\* No call of explore has returned yet.
NotExplored == [node |-> None, wrap |-> None, tree |-> EmptyRecord]

\* No call of explore is in progress.
NotExploring == [root |-> None, wrap |-> None, status |-> "idle", frames |-> <<>>]

\* The default value of explore's parameter: wrap = true.
Wrap_DefaultsToFalse(wrap) == IF wrap = None THEN "false" ELSE wrap

Wrap(wrap) == IF wrap = None THEN "true" ELSE wrap

\* Node.explore: the loop over #outputs.keys(), in insertion order, from the
\* i-th key on; each output is explored with wrap = false.
RECURSIVE ExploreFrom(_, _, _)
ExploreFrom(node, i, tree) ==
  IF i > Len(outputs[node]) THEN tree
  ELSE LET out == outputs[node][i].node
       IN  ExploreFrom(node, i + 1,
             RecordSet(tree, id[out], ExploreFrom(out, 1, EmptyRecord)))

Explore(node, wrap) ==
  LET tree == ExploreFrom(node, 1, EmptyRecord)
  IN  IF Wrap(wrap) = "true" THEN RecordSet(EmptyRecord, id[node], tree) ELSE tree

\* explore terminates on an acyclic graph only: the targets of the links are
\* ordered.
Before(n, m) == <<n, m>> \in {<<"A", "B">>, <<"A", "C">>, <<"B", "C">>}

\* The call node.explore(wrap), wrap = None when no argument is given.
explore(node, wrap) ==
  /\ ConfigCall
  /\ explored' = [node |-> node, wrap |-> wrap, tree |-> Explore(node, wrap)]
  /\ UNCHANGED <<shouldActivate, stack, outputs, sinks, lastLink, removed,
                 exploring, id>>

\* The same call, one frame at a time.  explore is entered: the frame of
\* the node called holds an empty tree and the loop is at the first output.
Frame(node) == [node |-> node, i |-> 1, tree |-> EmptyRecord]

exploreCall(node, wrap) ==
  /\ ConfigCall
  /\ exploring.status # "running"
  /\ exploring' = [root |-> node, wrap |-> wrap, status |-> "running",
                   frames |-> <<Frame(node)>>]
  /\ UNCHANGED <<shouldActivate, stack, outputs, sinks, lastLink, removed,
                 explored, id>>

\* What the outermost frame returns: wrap ? { [this.id]: tree } : tree.
Returned(root, wrap, tree) ==
  [node |-> root, wrap |-> wrap,
   tree |-> IF Wrap(wrap) = "true" THEN RecordSet(EmptyRecord, id[root], tree)
            ELSE tree]

\* An explore with a cycle guard: an output whose frame is on the call
\* stack is not explored again.
ExploreStep_GuardsCycles ==
  /\ exploring.status = "running"
  /\ LET fs == exploring.frames
         top == fs[Len(fs)]
     IN IF top.i <= Len(outputs[top.node])
        THEN LET out == outputs[top.node][top.i].node
             IN /\ exploring' =
                     IF \E f \in 1..Len(fs) : fs[f].node = out
                     THEN [exploring EXCEPT !.frames[Len(fs)].i = top.i + 1]
                     ELSE IF Len(fs) < MaxCallStack
                     THEN [exploring EXCEPT !.frames = Append(fs, Frame(out))]
                     ELSE [exploring EXCEPT !.status = "thrown", !.frames = <<>>]
                /\ UNCHANGED explored
        ELSE IF Len(fs) = 1
        THEN /\ explored' = Returned(exploring.root, exploring.wrap, top.tree)
             /\ exploring' = [exploring EXCEPT !.status = "returned",
                                               !.frames = <<>>]
        ELSE /\ exploring' = [exploring EXCEPT !.frames =
                  Append(SubSeq(fs, 1, Len(fs) - 2),
                         [fs[Len(fs) - 1] EXCEPT
                            !.tree = RecordSet(@, id[top.node], top.tree),
                            !.i = @ + 1])]
             /\ UNCHANGED explored
  /\ UNCHANGED runtime
  /\ UNCHANGED <<shouldActivate, stack, outputs, sinks, lastLink, removed, id>>

\* Node.explore, the frame on top of the call stack: the loop calls
\* node.explore(false) on the next output -- when the call stack is full the
\* call fails with the engine's RangeError, which nothing catches -- or,
\* after the last output, the frame returns its tree, which the caller
\* stores under the id of the node explored.
ExploreStep ==
  /\ exploring.status = "running"
  /\ LET fs == exploring.frames
         top == fs[Len(fs)]
     IN IF top.i <= Len(outputs[top.node])
        THEN LET out == outputs[top.node][top.i].node
             IN /\ exploring' =
                     IF Len(fs) < MaxCallStack
                     THEN [exploring EXCEPT !.frames = Append(fs, Frame(out))]
                     ELSE [exploring EXCEPT !.status = "thrown", !.frames = <<>>]
                /\ UNCHANGED explored
        ELSE IF Len(fs) = 1
        THEN /\ explored' = Returned(exploring.root, exploring.wrap, top.tree)
             /\ exploring' = [exploring EXCEPT !.status = "returned",
                                               !.frames = <<>>]
        ELSE /\ exploring' = [exploring EXCEPT !.frames =
                  Append(SubSeq(fs, 1, Len(fs) - 2),
                         [fs[Len(fs) - 1] EXCEPT
                            !.tree = RecordSet(@, id[top.node], top.tree),
                            !.i = @ + 1])]
             /\ UNCHANGED explored
  /\ UNCHANGED runtime
  /\ UNCHANGED <<shouldActivate, stack, outputs, sinks, lastLink, removed, id>>

\* ------------------------------------------------------------------ run-time

Settled == {"resolved", "rejected"}

Ids(A) == [i \in 1..Len(A) |-> i]

\* A new invocation record; the caller fills in what its kind needs.
Act(kind, t, node, c) ==
  [kind |-> kind, t |-> t, node |-> node, c |-> c, pc |-> "start",
   status |-> "running", err |-> NoError, wait |-> 0,
   override |-> None, parent |-> 0, procs |-> <<>>, rem |-> <<>>,
   i |-> 0, outs |-> <<>>, snk |-> <<>>, step |-> "", k |-> 0, ip |-> 0,
   signal |-> None]

\* An entry of the history: what happened (e), in which touch (t), at which
\* step or entry (k), to what (x), with which result (r), ctx.n being n;
\* for a call of touch, held is what the node's stack holds at the call.
Event(e, t, k, x, r, n) ==
  [e |-> e, t |-> t, k |-> k, x |-> x, r |-> r, n |-> n, held |-> <<>>]

\* The invocation whose code is executing.
Top == Head(callStack)

\* The async function a returns or throws: its promise settles, and the
\* invocations suspended on that promise are queued as microtasks.
Finish(A, a, st, e) ==
  /\ acts' = [A EXCEPT ![a].status = st, ![a].err = e]
  /\ callStack' = Tail(callStack)
  /\ microtasks' = microtasks \o
       SelectSeq(Ids(A), LAMBDA i : A[i].status = "suspended" /\ A[i].wait = a)

\* The async function a calls the async function described by callee: the
\* callee runs synchronously, on top of a, up to its first await.
Call(A, a, callee) ==
  /\ Len(A) < MaxActs
  /\ acts' = Append([A EXCEPT ![a].wait = Len(A) + 1], callee)
  /\ callStack' = <<Len(A) + 1>> \o callStack
  /\ microtasks' = microtasks

\* await p, p the promise of invocation A[a].wait: a leaves the call stack
\* and is resumed by a microtask once p has settled.
Await(A, a) ==
  /\ acts' = [A EXCEPT ![a].status = "suspended", ![a].pc = "resume"]
  /\ callStack' = Tail(callStack)
  /\ microtasks' = IF A[A[a].wait].status \in Settled
                   THEN Append(microtasks, a) ELSE microtasks

\* The event loop runs the next microtask when the call stack is empty.
Microtask ==
  /\ callStack = <<>>
  /\ microtasks # <<>>
  /\ callStack' = <<Head(microtasks)>>
  /\ microtasks' = Tail(microtasks)
  /\ acts' = [acts EXCEPT ![Head(microtasks)].status = "running"]
  /\ UNCHANGED <<ctx, log>>
  /\ UNCHANGED config

\* A timer a step sleeps on fires: a macrotask, taken when the call stack
\* and the microtask queue are empty.
TimerFires(a) ==
  /\ callStack = <<>>
  /\ microtasks = <<>>
  /\ acts[a].status = "sleeping"
  /\ callStack' = <<a>>
  /\ acts' = [acts EXCEPT ![a].status = "running"]
  /\ UNCHANGED <<ctx, log, microtasks>>
  /\ UNCHANGED config

\* ------------------------------------------------------------------ pipe

\* const stack = [...processors]: the executor's private copy.
PrivateCopy(processors) == processors

\* A continuation that would take the steps from the end of the stack.
Shift_TakesLast(rem) ==
  [processor |-> rem[Len(rem)], rest |-> SubSeq(rem, 1, Len(rem) - 1)]

\* A continuation that would read the first step without removing it.
Shift_Peeks(rem) == [processor |-> Head(rem), rest |-> rem]

\* stack.shift(): the processor taken, and what is left.
Shift(rem) == [processor |-> Head(rem), rest |-> Tail(rem)]

\* The index, in the sequence given to pipe, of the step Shift returns.
ShiftIndex(procs, rem) == Len(procs) - Len(rem) + 1

\* The error next() throws when the processor it awaited has failed.
ChainFailure(error, c) ==
  PipelineError(<<MiddlewareError(<<error>>, c)>>, c)

\* A continuation that would take its steps from the node's stack as it is
\* when the step is due, not from a copy.
NextStart_ReadsNodeStack(a) ==
  LET me == acts[a]
      own == acts[me.t]
      k == ShiftIndex(own.procs, own.rem)
  IN IF own.signal = "aborted" \/ own.rem = <<>> \/ k > Len(stack[me.node])
     THEN Finish(acts, a, "resolved", NoError) /\ UNCHANGED log
     ELSE LET callee == [Act("proc", me.t, me.node, me.c) EXCEPT
                           !.step = stack[me.node][k], !.k = k,
                           !.pc = "run", !.ip = 1]
          IN /\ Call([acts EXCEPT ![me.t].rem = Tail(own.rem), ![a].pc = "await"],
                     a, callee)
             /\ log' = Append(log,
                  Event("step", me.t, k, stack[me.node][k], "", ctx[me.c]))

\* A continuation whose cursor would be shared by all the invocations on a
\* node: every invocation takes the step after the last one any of them
\* has taken.
NextStart_SharedCursor(a) ==
  LET me == acts[a]
      own == acts[me.t]
      taken == Cardinality({i \in 1..Len(log) :
                 log[i].e = "step" /\ acts[log[i].t].node = me.node})
      k == taken + 1
  IN IF own.signal = "aborted" \/ k > Len(own.procs)
     THEN Finish(acts, a, "resolved", NoError) /\ UNCHANGED log
     ELSE LET callee == [Act("proc", me.t, me.node, me.c) EXCEPT
                           !.step = own.procs[k], !.k = k,
                           !.pc = "run", !.ip = 1]
          IN /\ Call([acts EXCEPT ![a].pc = "await"], a, callee)
             /\ log' = Append(log,
                  Event("step", me.t, k, own.procs[k], "", ctx[me.c]))

\* A continuation that would call the step without awaiting it.
NextStart_DoesNotAwait(a) ==
  LET me == acts[a]
      own == acts[me.t]
  IN IF own.signal = "aborted"
     THEN Finish(acts, a, "resolved", NoError) /\ UNCHANGED log
     ELSE IF own.rem = <<>>
     THEN Finish(acts, a, "resolved", NoError) /\ UNCHANGED log
     ELSE LET k == ShiftIndex(own.procs, own.rem)
              sh == Shift(own.rem)
              callee == [Act("proc", me.t, me.node, me.c) EXCEPT
                           !.step = sh.processor, !.k = k, !.pc = "run", !.ip = 1]
          IN /\ Call([acts EXCEPT ![me.t].rem = sh.rest, ![a].pc = "resume"],
                     a, callee)
             /\ log' = Append(log,
                  Event("step", me.t, k, sh.processor, "", ctx[me.c]))

\* A continuation that would not look at the signal.
NextStart_IgnoresSignal(a) ==
  LET me == acts[a]
      own == acts[me.t]
  IN IF own.rem = <<>>
     THEN Finish(acts, a, "resolved", NoError) /\ UNCHANGED log
     ELSE LET k == ShiftIndex(own.procs, own.rem)
              sh == Shift(own.rem)
              callee == [Act("proc", me.t, me.node, me.c) EXCEPT
                           !.step = sh.processor, !.k = k, !.pc = "run", !.ip = 1]
          IN /\ Call([acts EXCEPT ![me.t].rem = sh.rest, ![a].pc = "await"],
                     a, callee)
             /\ log' = Append(log,
                  Event("step", me.t, k, sh.processor, "", ctx[me.c]))

\* next(): if (signal?.aborted) return; const processor = stack.shift();
\* if (!processor) return; await processor(ctx, next) -- up to the call of
\* the processor.  The stack and the signal are those of the executor's
\* invocation me.t; touch gives the executor no signal.
NextStart(a) ==
  LET me == acts[a]
      own == acts[me.t]
  IN IF own.signal = "aborted"
     THEN Finish(acts, a, "resolved", NoError) /\ UNCHANGED log
     ELSE IF own.rem = <<>>
     THEN Finish(acts, a, "resolved", NoError) /\ UNCHANGED log
     ELSE LET k == ShiftIndex(own.procs, own.rem)
              sh == Shift(own.rem)
              callee == [Act("proc", me.t, me.node, me.c) EXCEPT
                           !.step = sh.processor, !.k = k, !.pc = "run", !.ip = 1]
          IN /\ Call([acts EXCEPT ![me.t].rem = sh.rest, ![a].pc = "await"],
                     a, callee)
             /\ log' = Append(log,
                  Event("step", me.t, k, sh.processor, "", ctx[me.c]))

\* A continuation that would go on to the next step after a failure.
NextResume_GoesOn(a) ==
  IF acts[acts[a].wait].status = "rejected"
  THEN NextStart(a)
  ELSE Finish(acts, a, "resolved", NoError) /\ UNCHANGED log

\* A continuation that would run the steps that are left when the step it
\* awaited has returned.
NextResume_RunsTheRest(a) ==
  IF acts[acts[a].wait].status = "rejected"
  THEN /\ Finish(acts, a, "rejected",
                 ChainFailure(acts[acts[a].wait].err, acts[a].c))
       /\ UNCHANGED log
  ELSE NextStart(a)

\* next(): the awaited processor has settled; a failure is wrapped.
NextResume(a) ==
  LET me == acts[a]
  IN /\ IF acts[me.wait].status = "rejected"
        THEN Finish(acts, a, "rejected", ChainFailure(acts[me.wait].err, me.c))
        ELSE Finish(acts, a, "resolved", NoError)
     /\ UNCHANGED log

\* next(), the continuation of util.ts: one step of the invocation on top.
NextStep ==
  /\ callStack # <<>>
  /\ acts[Top].kind = "next"
  /\ CASE acts[Top].pc = "start" -> NextStart(Top)
       [] acts[Top].pc = "await" -> Await(acts, Top) /\ UNCHANGED log
       [] acts[Top].pc = "resume" -> NextResume(Top)
  /\ UNCHANGED ctx
  /\ UNCHANGED config

\* The executor's invocations the embedding program has made itself.
Execs == {a \in 1..Len(acts) : acts[a].kind = "next" /\ acts[a].t = a}

\* The embedding program calls pipe(...processors)(ctx, signal) on a new
\* context object { n: n0 }: the executor copies the processors and returns
\* next(), whose invocation holds the copy and the signal.
execute(processors, n0, signal) ==
  /\ Idle
  /\ Len(acts) < MaxActs
  /\ Cardinality(Execs) < MaxTouches
  /\ ctx' = Append(ctx, n0)
  /\ acts' = Append(acts,
       [Act("next", Len(acts) + 1, "", Len(ctx) + 1) EXCEPT
          !.procs = processors, !.rem = PrivateCopy(processors),
          !.signal = signal])
  /\ callStack' = <<Len(acts) + 1>>
  /\ log' = Append(log, [Event("execute", Len(acts) + 1, 0, "", signal, n0)
                            EXCEPT !.held = processors])
  /\ UNCHANGED microtasks
  /\ UNCHANGED config

\* The embedding program aborts the signal it gave to the invocation e.
abort(e) ==
  /\ Idle
  /\ acts[e].signal = "live"
  /\ acts' = [acts EXCEPT ![e].signal = "aborted"]
  /\ log' = Append(log, Event("abort", e, 0, "", "", ctx[acts[e].c]))
  /\ UNCHANGED <<ctx, callStack, microtasks>>
  /\ UNCHANGED config

\* A middleware step: the instruction ins of the invocation a, which has
\* not been suspended in it.
ProcRun(a, ins) ==
  LET me == acts[a]
      advance == [acts EXCEPT ![a].ip = me.ip + 1, ![a].pc = "run"]
  IN CASE ins = "return" ->
            Finish(acts, a, "resolved", NoError) /\ UNCHANGED <<ctx, log>>
       [] ins = "mut" ->
            /\ ctx' = [ctx EXCEPT ![me.c] = @ + 10]
            /\ acts' = advance
            /\ UNCHANGED <<callStack, microtasks, log>>
       [] ins = "call" ->
            /\ Call(advance, a, Act("next", me.t, me.node, me.c))
            /\ UNCHANGED <<ctx, log>>
       [] ins \in {"await", "try"} ->
            Await(acts, a) /\ UNCHANGED <<ctx, log>>
       [] ins = "throw" ->
            /\ Finish(acts, a, "rejected", UserError(me.t, me.k))
            /\ log' = Append(log,
                 Event("throw", me.t, me.k, me.step, "", ctx[me.c]))
            /\ UNCHANGED ctx
       [] ins = "sleep" ->
            /\ acts' = [acts EXCEPT ![a].status = "sleeping", ![a].pc = "resume"]
            /\ callStack' = Tail(callStack)
            /\ UNCHANGED <<ctx, log, microtasks>>

\* A middleware step: the invocation a is resumed in the instruction ins.
ProcResume(a, ins) ==
  LET me == acts[a]
      advance == [acts EXCEPT ![a].ip = me.ip + 1, ![a].pc = "run"]
      failed == acts[me.wait].status = "rejected"
  IN /\ CASE ins = "await" ->
              IF failed
              THEN Finish(acts, a, "rejected", acts[me.wait].err)
              ELSE acts' = advance /\ UNCHANGED <<callStack, microtasks>>
         [] ins = "try" ->
              IF failed
              THEN acts' = advance /\ UNCHANGED <<callStack, microtasks>>
              ELSE Finish(acts, a, "resolved", NoError)
         [] ins = "sleep" ->
              acts' = advance /\ UNCHANGED <<callStack, microtasks>>
     /\ UNCHANGED <<ctx, log>>

\* A middleware step: one instruction of the invocation on top.
ProcStep ==
  /\ callStack # <<>>
  /\ acts[Top].kind = "proc"
  /\ LET code == Script(acts[Top].step)
         ins == IF acts[Top].ip <= Len(code) THEN code[acts[Top].ip] ELSE "return"
     IN IF acts[Top].pc = "run" THEN ProcRun(Top, ins) ELSE ProcResume(Top, ins)
  /\ UNCHANGED config

\* ------------------------------------------------------------------ touch

\* The record of the invocation node.touch(ctx, override) made by parent
\* (0: the embedding program), as invocation number t.
TouchAct(t, node, c, override, parent) ==
  [Act("touch", t, node, c) EXCEPT !.override = override, !.parent = parent]

\* The touches the embedding program has made.
Roots == {a \in 1..Len(acts) : acts[a].kind = "touch" /\ acts[a].parent = 0}

\* The embedding program calls node.touch(ctx, override) on a new context
\* object { n: n0 }.
touch(node, n0, override) ==
  /\ Idle
  /\ Len(acts) < MaxActs
  /\ Cardinality(Roots) < MaxTouches
  /\ ctx' = Append(ctx, n0)
  /\ acts' = Append(acts, TouchAct(Len(acts) + 1, node, Len(ctx) + 1, override, 0))
  /\ callStack' = <<Len(acts) + 1>>
  /\ log' = Append(log, [Event("touch", Len(acts) + 1, 0, node, override, n0)
                            EXCEPT !.held = stack[node]])
  /\ UNCHANGED microtasks
  /\ UNCHANGED config

\* What calling the sink does: it returns, it throws, or it returns a
\* promise that rejects.
SinkOutcome(s) ==
  CASE s = "log" -> "returns"
    [] s = "boom" -> "throws"
    [] s = "reject" -> "rejects"

\* A touch that would call the executor and go on without awaiting it.
TouchStart_DoesNotAwait(a) ==
  LET me == acts[a]
      n == ctx[me.c]
      r == ShouldActivate(ActivateFn(me.override, me.node), me.node, n)
  IN /\ log' = Append(log, Event("activate", a, 0, me.node, r, n))
     /\ IF r = "throws"
        THEN Finish(acts, a, "rejected", UserError(a, 0))
        ELSE IF r = "false"
        THEN Finish(acts, a, "resolved", NoError)
        ELSE Call([acts EXCEPT ![a].procs = stack[me.node],
                               ![a].rem = PrivateCopy(stack[me.node]),
                               ![a].pc = "resume"],
                  a, Act("next", a, me.node, me.c))

\* touch: if (!Node.shouldActivate(activateFn, this, ctx)) return;
\*        await pipe(...this.#stack)(ctx) -- up to the call of the executor,
\* which calls next().
TouchStart(a) ==
  LET me == acts[a]
      n == ctx[me.c]
      r == ShouldActivate(ActivateFn(me.override, me.node), me.node, n)
  IN /\ log' = Append(log, Event("activate", a, 0, me.node, r, n))
     /\ IF r = "throws"
        THEN Finish(acts, a, "rejected", UserError(a, 0))
        ELSE IF r = "false"
        THEN Finish(acts, a, "resolved", NoError)
        ELSE Call([acts EXCEPT ![a].procs = stack[me.node],
                               ![a].rem = PrivateCopy(stack[me.node]),
                               ![a].pc = "await"],
                  a, Act("next", a, me.node, me.c))

\* A touch that would go on to its outputs and sinks whatever the executor's
\* outcome.
TouchResume_FansOutAnyway(a) ==
  LET me == acts[a]
  IN /\ acts' = [acts EXCEPT ![a].pc = "fanout", ![a].i = 1,
                             ![a].outs = outputs[me.node]]
     /\ log' = Append(log, Event("fanout", a, 0, me.node, "", ctx[me.c]))
     /\ UNCHANGED <<callStack, microtasks>>

\* touch: the awaited executor has settled.  Its failure is touch's; on
\* success, if (this.#outputs.size) ... [...this.#outputs.entries()]
TouchResume(a) ==
  LET me == acts[a]
  IN IF acts[me.wait].status = "rejected"
     THEN Finish(acts, a, "rejected", acts[me.wait].err) /\ UNCHANGED log
     ELSE /\ acts' = [acts EXCEPT ![a].pc = "fanout", ![a].i = 1,
                                  ![a].outs = outputs[me.node]]
          /\ log' = Append(log, Event("fanout", a, 0, me.node, "", ctx[me.c]))
          /\ UNCHANGED <<callStack, microtasks>>

\* A touch that would await the linked node it has touched.
TouchFanout_AwaitsLinked(a) ==
  LET me == acts[a]
      n == ctx[me.c]
  IN IF me.i > Len(me.outs)
     THEN /\ acts' = [acts EXCEPT ![a].pc = "sinks", ![a].i = 1,
                                  ![a].snk = sinks[me.node]]
          /\ UNCHANGED <<callStack, microtasks, log>>
     ELSE LET out == me.outs[me.i]
              r == ShouldActivate(out.pred, out.node, n)
              moved == [acts EXCEPT ![a].i = me.i + 1, ![a].pc = "await"]
              seen == Append(log, Event("pred", a, me.i, out.node, r, n))
          IN IF r = "throws"
             THEN Finish(acts, a, "rejected", UserError(a, 0)) /\ log' = seen
             ELSE IF r = "false"
             THEN /\ acts' = [acts EXCEPT ![a].i = me.i + 1]
                  /\ log' = seen /\ UNCHANGED <<callStack, microtasks>>
             ELSE /\ Call(moved, a, TouchAct(Len(acts) + 1, out.node, me.c, None, a))
                  /\ log' = Append(seen,
                       [Event("touch", Len(acts) + 1, 0, out.node, None, n)
                          EXCEPT !.held = stack[out.node]])

\* A touch that would hand the override it was given on to the linked nodes.
TouchFanout_PassesOverride(a) ==
  LET me == acts[a]
      n == ctx[me.c]
  IN IF me.i > Len(me.outs)
     THEN /\ acts' = [acts EXCEPT ![a].pc = "sinks", ![a].i = 1,
                                  ![a].snk = sinks[me.node]]
          /\ UNCHANGED <<callStack, microtasks, log>>
     ELSE LET out == me.outs[me.i]
              r == ShouldActivate(out.pred, out.node, n)
              moved == [acts EXCEPT ![a].i = me.i + 1]
              seen == Append(log, Event("pred", a, me.i, out.node, r, n))
          IN IF r = "throws"
             THEN Finish(acts, a, "rejected", UserError(a, 0)) /\ log' = seen
             ELSE IF r = "false"
             THEN acts' = moved /\ log' = seen /\ UNCHANGED <<callStack, microtasks>>
             ELSE /\ Call(moved, a,
                          TouchAct(Len(acts) + 1, out.node, me.c, me.override, a))
                  /\ log' = Append(seen,
                       [Event("touch", Len(acts) + 1, 0, out.node, me.override, n)
                          EXCEPT !.held = stack[out.node]])

\* A touch that would not touch a linked node that has been touched before.
TouchFanout_GuardsCycles(a) ==
  LET me == acts[a]
      n == ctx[me.c]
  IN IF me.i > Len(me.outs)
     THEN /\ acts' = [acts EXCEPT ![a].pc = "sinks", ![a].i = 1,
                                  ![a].snk = sinks[me.node]]
          /\ UNCHANGED <<callStack, microtasks, log>>
     ELSE LET out == me.outs[me.i]
              seen == \E b \in 1..Len(acts) :
                        acts[b].kind = "touch" /\ acts[b].node = out.node
              r == IF seen THEN "false" ELSE ShouldActivate(out.pred, out.node, n)
              moved == [acts EXCEPT ![a].i = me.i + 1]
              logged == Append(log, Event("pred", a, me.i, out.node, r, n))
          IN IF r = "throws"
             THEN Finish(acts, a, "rejected", UserError(a, 0)) /\ log' = logged
             ELSE IF r = "false"
             THEN acts' = moved /\ log' = logged /\ UNCHANGED <<callStack, microtasks>>
             ELSE /\ Call(moved, a, TouchAct(Len(acts) + 1, out.node, me.c, None, a))
                  /\ log' = Append(logged,
                       [Event("touch", Len(acts) + 1, 0, out.node, None, n)
                          EXCEPT !.held = stack[out.node]])

\* touch: .map(([node, shouldActivate]) =>
\*   Node.shouldActivate(shouldActivate, node, ctx) ? node.touch(ctx) : null)
\* for one entry; after the last one, [...this.#sinks.values()].
TouchFanout(a) ==
  LET me == acts[a]
      n == ctx[me.c]
  IN IF me.i > Len(me.outs)
     THEN /\ acts' = [acts EXCEPT ![a].pc = "sinks", ![a].i = 1,
                                  ![a].snk = sinks[me.node]]
          /\ UNCHANGED <<callStack, microtasks, log>>
     ELSE LET out == me.outs[me.i]
              r == ShouldActivate(out.pred, out.node, n)
              moved == [acts EXCEPT ![a].i = me.i + 1]
              seen == Append(log, Event("pred", a, me.i, out.node, r, n))
          IN IF r = "throws"
             THEN Finish(acts, a, "rejected", UserError(a, 0)) /\ log' = seen
             ELSE IF r = "false"
             THEN acts' = moved /\ log' = seen /\ UNCHANGED <<callStack, microtasks>>
             ELSE /\ Call(moved, a, TouchAct(Len(acts) + 1, out.node, me.c, None, a))
                  /\ log' = Append(seen,
                       [Event("touch", Len(acts) + 1, 0, out.node, None, n)
                          EXCEPT !.held = stack[out.node]])

\* touch: .map((sink) => sink(ctx)) for one sink; after the last one the
\* async function returns.
TouchSinks(a) ==
  LET me == acts[a]
  IN IF me.i > Len(me.snk)
     THEN Finish(acts, a, "resolved", NoError) /\ UNCHANGED log
     ELSE /\ log' = Append(log,
               Event("sink", a, me.i, me.snk[me.i], SinkOutcome(me.snk[me.i]),
                     ctx[me.c]))
          /\ IF SinkOutcome(me.snk[me.i]) = "throws"
             THEN Finish(acts, a, "rejected", UserError(a, 0))
             ELSE /\ acts' = [acts EXCEPT ![a].i = me.i + 1]
                  /\ UNCHANGED <<callStack, microtasks>>

\* Node.touch: one step of the invocation on top of the call stack.
TouchStep ==
  /\ callStack # <<>>
  /\ acts[Top].kind = "touch"
  /\ CASE acts[Top].pc = "start" -> TouchStart(Top)
       [] acts[Top].pc = "await" -> Await(acts, Top) /\ UNCHANGED log
       [] acts[Top].pc = "resume" -> TouchResume(Top)
       [] acts[Top].pc = "fanout" -> TouchFanout(Top)
       [] acts[Top].pc = "sinks" -> TouchSinks(Top)
  /\ UNCHANGED ctx
  /\ UNCHANGED config

\* ------------------------------------------------------------------ specifications

\* new Node({ id, shouldActivate }): shouldActivate ?? true; the stack, the
\* outputs and the sinks start empty.
Constructed ==
  /\ shouldActivate \in [Nodes -> Preds]
  /\ stack = [n \in Nodes |-> <<>>]
  /\ outputs = [n \in Nodes |-> <<>>]
  /\ sinks = [n \in Nodes |-> <<>>]
  /\ lastLink = [n \in Nodes |-> [m \in Nodes |-> [pred |-> None, calls |-> 0]]]
  /\ removed = [n \in Nodes |-> {}]
  /\ explored = NotExplored
  /\ exploring = NotExploring
  /\ ctx = <<>>
  /\ acts = <<>>
  /\ callStack = <<>>
  /\ microtasks = <<>>
  /\ log = <<>>

\* The nodes are constructed with ids of their own, as the generated ids are.
Init == Constructed /\ id = [n \in Nodes |-> n]

\* The library's code runs: the invocation on top of the call stack takes a
\* step, or the event loop starts a microtask or a timer's callback.
Run ==
  \/ TouchStep
  \/ NextStep
  \/ ProcStep
  \/ Microtask
  \/ \E a \in 1..Len(acts) : TimerFires(a)

\* No invocation is in flight.
Quiet == \A a \in 1..Len(acts) : acts[a].status \in Settled

\* No invocation has been made yet: the embedding program is still building
\* the graph.
Fresh == acts = <<>>

\* One node and its middleware chain, with every kind of step: the
\* embedding program fills the stack, then touches the node.
InitChain ==
  /\ Init
  /\ shouldActivate["A"] \in {Always, "pos"}
  /\ \A n \in Nodes \ {"A"} : shouldActivate[n] = Always

NextChain ==
  \/ \E kind \in StepKinds : Fresh /\ use("A", kind)
  \/ Fresh /\ clearStack("A")
  \/ \E n0 \in CtxInit : Fresh /\ touch("A", n0, None)
  \/ Run

SpecChain == InitChain /\ [][NextChain]_vars

\* Node A with its sinks and its links to the nodes B and C: the embedding
\* program builds the graph, then touches A once.
GraphSteps == {"pass", "throw", "slow", "forget"}

InitGraph ==
  /\ Init
  /\ shouldActivate["A"] \in {Always, "pos"}
  /\ shouldActivate["B"] \in {Always, "never", "throws"}
  /\ shouldActivate["C"] = Always

NextGraph ==
  \/ \E node \in {"A", "B"}, kind \in GraphSteps : Fresh /\ use(node, kind)
  \/ \E node \in {"A", "B"} : Fresh /\ clearStack(node)
  \/ \E target \in {"B", "C"}, pred \in {None, "pos", "throws"} :
        Fresh /\ link("A", target, pred) /\ UNCHANGED lastLink
  \/ \E target \in {"B", "C"} : Fresh /\ unlink("A", target)
  \/ Fresh /\ unlinkAll("A")
  \/ \E s \in Sinks : Fresh /\ sink("A", s) /\ UNCHANGED removed
  \/ \E s \in Sinks : Fresh /\ unsink("A", s) /\ UNCHANGED removed
  \/ Fresh /\ clearSinks("A") /\ UNCHANGED removed
  \/ \E n0 \in CtxInit, override \in {None, Always, "never", "throws"} :
        Fresh /\ touch("A", n0, override)
  \/ Run

SpecGraph == InitGraph /\ [][NextGraph]_vars

\* The outputs of node A alone: the embedding program links and unlinks.
InitLink == Init /\ \A n \in Nodes : shouldActivate[n] = Always

NextLink ==
  \/ \E target \in Nodes, pred \in OptPreds :
        link("A", target, pred) /\ Linked("A", target, pred)
  \/ \E target \in Nodes : unlink("A", target)
  \/ unlinkAll("A")

SpecLink == InitLink /\ [][NextLink]_vars

\* The embedding program reconfigures a node as long as a touch is in
\* flight or still to come.
Pending == ~Quiet \/ Cardinality(Roots) < MaxTouches

\* The sinks of node A while its touches are in flight: the embedding
\* program adds and removes sinks between two runs of the library's code.
LiveSinks == {"log", "reject"}

InitSinks == Init /\ \A n \in Nodes : shouldActivate[n] = Always

NextSinks ==
  \/ Fresh /\ use("A", "slow")
  \/ \E s \in LiveSinks : Pending /\ sink("A", s) /\ Sunk("A", s)
  \/ \E s \in LiveSinks : Pending /\ unsink("A", s) /\ Unsunk("A", s)
  \/ Pending /\ clearSinks("A") /\ Cleared("A")
  \/ touch("A", 0, None)
  \/ Run

SpecSinks == InitSinks /\ [][NextSinks]_vars

\* The stack of node A while a touch is in flight: the embedding program
\* builds the stack, touches A once, and goes on adding steps and clearing
\* the stack between two runs of the library's code until the touch is over.
LiveSteps == {"pass", "slow", "stop"}

InFlight == Fresh \/ ~Quiet

InitStack == Init /\ \A n \in Nodes : shouldActivate[n] = Always

NextStack ==
  \/ \E kind \in LiveSteps : InFlight /\ use("A", kind)
  \/ InFlight /\ clearStack("A")
  \/ Fresh /\ touch("A", 0, None)
  \/ Run

SpecStack == InitStack /\ [][NextStack]_vars

\* The executor alone, invoked once, with or without an abort signal, which
\* the embedding program may abort while the invocation is in flight.
PipeSteps == {"pass", "slow", "throw"}

PipeStacks == UNION {[1..m -> PipeSteps] : m \in 0..MaxStack}

Signals == {None, "live", "aborted"}

\* The executor's code runs: a continuation or a step takes a step, or the
\* event loop starts a microtask or a timer's callback.
RunPipe ==
  \/ NextStep
  \/ ProcStep
  \/ Microtask
  \/ \E a \in 1..Len(acts) : TimerFires(a)

InitPipe == Init /\ \A n \in Nodes : shouldActivate[n] = Always

NextPipe ==
  \/ \E processors \in PipeStacks, signal \in Signals :
        Fresh /\ execute(processors, 0, signal)
  \/ \E e \in 1..Len(acts) : abort(e)
  \/ RunPipe

SpecPipe == InitPipe /\ [][NextPipe]_vars

\* Acyclic graphs of nodes with ids given by the caller, explored.
NodeIds == {"A", "B", "C"}

InitExplore ==
  /\ Constructed
  /\ \A n \in Nodes : shouldActivate[n] = Always
  /\ id \in [Nodes -> NodeIds]

NextExplore ==
  \/ \E node \in Nodes, target \in Nodes :
        Before(node, target) /\ link(node, target, None) /\ UNCHANGED lastLink
  \/ \E node \in Nodes, target \in Nodes : unlink(node, target)
  \/ \E node \in Nodes, wrap \in {None, "true", "false"} : explore(node, wrap)

SpecExplore == InitExplore /\ [][NextExplore]_vars

\* Graphs with and without cycles, explored frame by frame: the embedding
\* program links and unlinks the nodes, then calls explore once; the call,
\* which is synchronous, goes on to its end.
NextRecurse ==
  \/ \E node \in Nodes, target \in Nodes :
        /\ exploring.status = "idle"
        /\ link(node, target, None) /\ UNCHANGED lastLink
  \/ \E node \in Nodes, target \in Nodes :
        exploring.status = "idle" /\ unlink(node, target)
  \/ \E node \in Nodes, wrap \in {None, "false"} :
        exploring.status = "idle" /\ exploreCall(node, wrap)
  \/ ExploreStep

SpecRecurse == InitLink /\ [][NextRecurse]_vars /\ WF_vars(ExploreStep)

\* Graphs with cycles: A and B linked to themselves and to each other, all
\* predicates 'always true'; the embedding program builds the graph, then
\* touches A once.
CycleNodes == {"A", "B"}

CycleSteps == {"pass", "slow", "throw"}

InitCycle == Init /\ \A n \in Nodes : shouldActivate[n] = Always

NextCycle ==
  \/ \E node \in CycleNodes, kind \in CycleSteps : Fresh /\ use(node, kind)
  \/ \E node \in CycleNodes, target \in CycleNodes, pred \in {None, Always} :
        Fresh /\ link(node, target, pred) /\ UNCHANGED lastLink
  \/ \E node \in CycleNodes, target \in CycleNodes :
        Fresh /\ unlink(node, target)
  \/ Fresh /\ touch("A", 0, None)
  \/ Run

SpecCycle == InitCycle /\ [][NextCycle]_vars

\* The same with the event loop's guarantee: code that can run does run
\* (a microtask that is queued is run, a timer that is due fires).
SpecCycleLive == SpecCycle /\ WF_vars(Run)

\* Touches of one node that overlap: the embedding program fills the stack
\* of A, then touches A, and touches it again whenever the call stack is
\* empty, also while an earlier touch waits for a timer.
OverlapSteps == {"pass", "slow", "forget", "stop"}

InitOverlap ==
  /\ Init
  /\ shouldActivate["A"] \in {Always, "pos"}
  /\ \A n \in Nodes \ {"A"} : shouldActivate[n] = Always

NextOverlap ==
  \/ \E kind \in OverlapSteps : Fresh /\ use("A", kind)
  \/ Fresh /\ clearStack("A")
  \/ \E n0 \in CtxInit : touch("A", n0, None)
  \/ Run

SpecOverlap == InitOverlap /\ [][NextOverlap]_vars

\* A node whose chain is cut short: A holds steps that call the continuation
\* or return without calling it, links to B and C, and sinks; the embedding
\* program builds the graph, then touches A once.
ShortSteps == {"stop", "pass", "slow"}

InitShort == Init /\ \A n \in Nodes : shouldActivate[n] = Always

NextShort ==
  \/ \E kind \in ShortSteps : Fresh /\ use("A", kind)
  \/ \E target \in {"B", "C"}, pred \in {None, "pos", "throws"} :
        Fresh /\ link("A", target, pred) /\ UNCHANGED lastLink
  \/ \E s \in Sinks : Fresh /\ sink("A", s) /\ UNCHANGED removed
  \/ \E n0 \in CtxInit : Fresh /\ touch("A", n0, None)
  \/ Run

SpecShort == InitShort /\ [][NextShort]_vars

\* ------------------------------------------------------------------ observations

Touches == {a \in 1..Len(acts) : acts[a].kind = "touch"}

Children(t) == {a \in Touches : acts[a].parent = t}

\* The history of touch t: its entries of kind e, in order.
Happened(e, t) == SelectSeq(log, LAMBDA ev : ev.e = e /\ ev.t = t)

\* The call of touch t: the node, the override given and ctx.n at the call.
Called(t) == Happened("touch", t)[1]

\* The predicate the caller of touch t means to decide the activation: the
\* override if one was given, else the one stored in the node.
GivenPredicate(t) ==
  IF Called(t).r # None THEN Called(t).r ELSE shouldActivate[acts[t].node]

\* What a predicate answers for ctx.n = n.
PredicateTrue(pred, n) == pred \in {None, Always} \/ (pred = "pos" /\ n > 0)

PredicateFalse(pred, n) == pred = "never" \/ (pred = "pos" /\ n <= 0)

\* The steps touch t has started, in order: their kinds, and their positions.
KindsRun(t) == [j \in 1..Len(Happened("step", t)) |-> Happened("step", t)[j].x]

PositionsRun(t) == [j \in 1..Len(Happened("step", t)) |-> Happened("step", t)[j].k]

\* What the body of a step of this kind does with its continuation.
NumCalls(kind) ==
  Cardinality({i \in 1..Len(Script(kind)) : Script(kind)[i] = "call"})

ThrowsBeforeCalling(kind) ==
  \E i \in 1..Len(Script(kind)) :
    /\ Script(kind)[i] = "throw"
    /\ \A j \in 1..i : Script(kind)[j] # "call"

\* ------------------------------------------------------------------ claims

\* C1: a touch whose effective activation predicate (the override if given,
\* else the node's own) returns false runs no middleware step, evaluates no
\* link predicate, touches no linked node, invokes no sink, and resolves.
C1_InactiveTouchDoesNothing ==
  \A t \in Touches :
    PredicateFalse(GivenPredicate(t), Called(t).n) =>
      /\ acts[t].status \in {"running", "resolved"}
      /\ acts[t].status = "running" => acts[t].pc = "start"
      /\ \A i \in 1..Len(log) : log[i].t = t => log[i].e \in {"touch", "activate"}
      /\ Children(t) = {}
      /\ \A a \in 1..Len(acts) : acts[a].t = t => a = t

\* A touch with an override that returns false has resolved, on a node that
\* holds a step, a link and a sink and whose own predicate is 'always true'.
C1_Witness ==
  \E t \in Touches :
    /\ acts[t].status = "resolved"
    /\ Called(t).r = "never"
    /\ shouldActivate[acts[t].node] = Always
    /\ stack[acts[t].node] # <<>>
    /\ outputs[acts[t].node] # <<>>
    /\ sinks[acts[t].node] # <<>>

\* C2 as stated: for every stack, a touch whose activation is true runs every
\* step of the stack, in the order added, each exactly once.
C2_RunsEveryStep ==
  Quiet =>
    \A t \in Touches :
      PredicateTrue(GivenPredicate(t), Called(t).n) =>
        /\ KindsRun(t) = stack[acts[t].node]
        /\ PositionsRun(t) = Ids(stack[acts[t].node])

\* C2, amended: the same for every stack in which every step but the last
\* calls its continuation; it holds once all the touch started has settled.
C2_RunsEveryStepThatIsReached ==
  Quiet =>
    \A t \in Touches :
      /\ PredicateTrue(GivenPredicate(t), Called(t).n)
      /\ \A i \in 1..(Len(stack[acts[t].node]) - 1) :
            NumCalls(stack[acts[t].node][i]) >= 1
      => /\ KindsRun(t) = stack[acts[t].node]
         /\ PositionsRun(t) = Ids(stack[acts[t].node])

\* A touch activated by a predicate that returns true has run two steps of
\* different kinds, and all it started has settled.
C2_Witness ==
  /\ Quiet
  /\ \E t \in Touches :
       /\ shouldActivate[acts[t].node] = "pos"
       /\ Called(t).n > 0
       /\ Len(stack[acts[t].node]) = 2
       /\ stack[acts[t].node][1] # stack[acts[t].node][2]
       /\ NumCalls(stack[acts[t].node][1]) >= 1
       /\ KindsRun(t) = stack[acts[t].node]

\* C3 as stated: if step k throws during a touch, none of the steps k+1..n
\* is executed in that touch, neither before nor after the throw.
C3_NoStepAfterThrower ==
  \A t \in Touches :
    \A i \in 1..Len(Happened("throw", t)) :
      \A j \in 1..Len(Happened("step", t)) :
        Happened("step", t)[j].k <= Happened("throw", t)[i].k

\* C3, amended: if step k throws before it has called its continuation, and
\* no step before it calls its continuation more than once, none of the
\* steps k+1..n is executed in that touch.
C3_NoStepAfterFirstThrow ==
  \A t \in Touches :
    \A i \in 1..Len(Happened("throw", t)) :
      LET k == Happened("throw", t)[i].k
      IN /\ ThrowsBeforeCalling(stack[acts[t].node][k])
         /\ \A b \in 1..(k - 1) : NumCalls(stack[acts[t].node][b]) <= 1
         => \A j \in 1..Len(Happened("step", t)) : Happened("step", t)[j].k <= k

\* The first of two steps has thrown, the touch has rejected, and the second
\* step has not run.
C3_Witness ==
  \E t \in Touches :
    /\ acts[t].status = "rejected"
    /\ Len(stack[acts[t].node]) = 2
    /\ Len(Happened("throw", t)) = 1
    /\ Happened("throw", t)[1].k = 1
    /\ PositionsRun(t) = <<1>>

\* A chain failure around a step failure around the original error of touch
\* t, both carrying the context c.
TwoLevels(e, t, c) ==
  /\ e.name = "PipelineError"
  /\ e.ctx = c
  /\ Len(e.errors) = 1
  /\ e.errors[1].name = "MiddlewareError"
  /\ e.errors[1].ctx = c
  /\ Len(e.errors[1].errors) = 1
  /\ e.errors[1].errors[1].name = "Error"
  /\ e.errors[1].errors[1].t = t

\* C4: wherever in the chain the step that throws is, touch rejects with a
\* chain failure whose one cause is a step failure whose one cause is the
\* original error: exactly two levels.
C4_TwoLevelFailure ==
  \A t \in Touches :
    acts[t].status = "rejected" => TwoLevels(acts[t].err, t, acts[t].c)

\* The error at the bottom of an aggregated error: the one a user's
\* function threw.
RECURSIVE Origin(_)
Origin(e) == IF e.errors = <<>> THEN e ELSE Origin(e.errors[1])

\* C5: touch rejects only on an aggregated middleware failure of the node
\* touched: if touch rejects, the rejection value is the chain failure its
\* own middleware chain has produced.
C5_RejectsOnlyWithChainFailure ==
  \A t \in Touches :
    acts[t].status = "rejected" =>
      /\ acts[t].err.name = "PipelineError"
      /\ Origin(acts[t].err).t = t
      /\ Origin(acts[t].err).k >= 1

\* C6: the result of a touch depends on no linked node.  A touch that has
\* not settled and is not executing is suspended on its own middleware
\* chain alone, and is queued to resume as soon as that chain has settled;
\* and an error touch rejects with never comes from another touch.
C6_TouchDependsOnNoLinkedNode ==
  \A t \in Touches :
    /\ acts[t].status = "rejected" => Origin(acts[t].err).t = t
    /\ acts[t].status \notin Settled /\ (\A i \in 1..Len(callStack) : callStack[i] # t)
       => /\ acts[t].status = "suspended"
          /\ acts[acts[t].wait].kind = "next"
          /\ acts[acts[t].wait].t = t
          /\ Happened("fanout", t) = <<>>
          /\ acts[acts[t].wait].status \in Settled
             => \E i \in 1..Len(microtasks) : microtasks[i] = t

\* A touch has resolved while a step of the linked node it has touched is
\* still waiting for its timer, and another one after the linked node's
\* touch has rejected.
C6_Witness ==
  \E t \in Touches :
    /\ acts[t].status = "resolved"
    /\ \E c \in Children(t) :
         \/ \E a \in 1..Len(acts) :
              acts[a].kind = "proc" /\ acts[a].t = c /\ acts[a].status = "sleeping"
         \/ acts[c].status = "rejected"

\* C7: a failure of a sink never makes the touch that invoked it reject.
C7_SinkFailureNeverRejects ==
  \A t \in Touches :
    Happened("sink", t) # <<>> /\ acts[t].status \in Settled
      => acts[t].status = "resolved"

\* The linked node's middleware has been started by its touch c.
Started(c) ==
  /\ acts[c].pc # "start"
  /\ stack[acts[c].node] # <<>> => Happened("step", c) # <<>>

\* C8: with A linked to B with predicate p, and B's own predicate 'always
\* true': once a touch of A whose middleware succeeded has settled, it has
\* started B's middleware if p is true of the context at fan-out, and it has
\* not touched B if p is false of the context.  (A step only ever raises
\* ctx.n, so a predicate true at the start of the fan-out is true all
\* through it, and one false of the context now was false all through it.)
C8_LinkPredicateGatesLinkedNode ==
  \A t \in Touches :
    Happened("fanout", t) # <<>> /\ acts[t].status \in Settled =>
      \A i \in 1..Len(outputs[acts[t].node]) :
        LET out == outputs[acts[t].node][i]
            kids == {c \in Children(t) : acts[c].node = out.node}
        IN shouldActivate[out.node] = Always =>
             /\ PredicateTrue(out.pred, Happened("fanout", t)[1].n) =>
                  \E c \in kids : Started(c)
             /\ PredicateFalse(out.pred, ctx[acts[t].c]) => kids = {}

\* What holds of C8 in the code: each link predicate that the fan-out gets
\* to evaluate gates its node -- answering true, the node is touched at once
\* and its middleware has started when the touch of A settles; answering
\* false, the node is not touched.
LinkPredicateEvaluatedGatesLinkedNode ==
  \A t \in Touches :
    \A i \in 1..Len(Happened("pred", t)) :
      LET ev == Happened("pred", t)[i]
          p == acts[t].outs[ev.k].pred
          kids == {c \in Children(t) : acts[c].node = ev.x}
      IN shouldActivate[ev.x] = Always =>
           /\ PredicateTrue(p, ev.n) =>
                \E c \in kids : acts[t].status \in Settled => Started(c)
           /\ PredicateFalse(p, ev.n) => kids = {}

\* C9: after any sequence of link, unlink and unlinkAll calls, each target
\* appears at most once in a node's outputs, with the predicate the last
\* link call for it gave ('always true' if it gave none).
C9_OneEntryPerTarget ==
  \A node \in Nodes :
    /\ \A i, j \in 1..Len(outputs[node]) :
         outputs[node][i].node = outputs[node][j].node => i = j
    /\ \A i \in 1..Len(outputs[node]) :
         LET given == lastLink[node][outputs[node][i].node]
         IN /\ given.calls >= 1
            /\ outputs[node][i].pred =
                 (IF given.pred = None THEN Always ELSE given.pred)

\* B has been linked more than once, last with a predicate, and is the
\* first of two outputs.
C9_Witness ==
  /\ Len(outputs["A"]) = 2
  /\ outputs["A"][1] = [node |-> "B", pred |-> "pos"]
  /\ lastLink["A"]["B"].calls = 2

\* C10: when a node's middleware chain succeeds in a touch, every sink of
\* the node is invoked exactly once by that touch, with the context as the
\* node's middleware left it, before the touch settles.
C10_EverySinkOnceWithFinalContext ==
  \A t \in Touches :
    Happened("fanout", t) # <<>> /\ acts[t].status \in Settled =>
      \A i \in 1..Len(sinks[acts[t].node]) :
        /\ Cardinality({j \in 1..Len(Happened("sink", t)) :
              Happened("sink", t)[j].x = sinks[acts[t].node][i]}) = 1
        /\ \A j \in 1..Len(Happened("sink", t)) :
              Happened("sink", t)[j].n = Happened("fanout", t)[1].n

\* C11: after unsink(fn) or clearSinks() has returned on a node, no fan-out
\* of the node invokes fn until sink(fn) adds it again: a fan-out never
\* invokes a sink that has been removed and not added again since.
C11_RemovedSinkIsNotInvoked ==
  [][\A i \in (Len(log) + 1)..Len(log') :
        log'[i].e = "sink" => log'[i].x \notin removed[acts[log'[i].t].node]]_vars

\* A first touch has invoked the sink log; log has been removed since, by
\* unsink or by clearSinks, and a later touch has run its fan-out and
\* invoked another sink, but not log.
C11_Witness ==
  \E t1, t2 \in Touches :
    /\ t1 < t2
    /\ \E j \in 1..Len(Happened("sink", t1)) : Happened("sink", t1)[j].x = "log"
    /\ "log" \in removed["A"]
    /\ acts[t2].status = "resolved"
    /\ Happened("sink", t2) # <<>>
    /\ \A j \in 1..Len(Happened("sink", t2)) : Happened("sink", t2)[j].x # "log"

\* The step awaits every continuation it calls.
AwaitsContinuation(kind) ==
  \A i \in 1..Len(Script(kind)) :
    Script(kind)[i] = "call" =>
      i < Len(Script(kind)) /\ Script(kind)[i + 1] \in {"await", "try"}

\* The steps of touch t that are in progress: started and not settled.
InProgress(t) ==
  {a \in 1..Len(acts) :
     acts[a].kind = "proc" /\ acts[a].t = t /\ acts[a].status \notin Settled}

\* Where in the history the events of kind e of touch t are.
When(e, t) == {i \in 1..Len(log) : log[i].e = e /\ log[i].t = t}

\* The fan-out of touch t has begun: a link predicate evaluated, a linked
\* node touched or a sink invoked.
FanOutBegun(t) ==
  Happened("pred", t) # <<>> \/ Happened("sink", t) # <<>> \/ Children(t) # {}

\* How much the steps of a stack that mutate the context add to ctx.n.
Added(steps) ==
  10 * Cardinality({i \in 1..Len(steps) :
         \E j \in 1..Len(Script(steps[i])) : Script(steps[i])[j] = "mut"})

Held(t) == Called(t).held

\* C13 as stated: whatever use() and clearStack() do while touch t is in
\* flight, t runs exactly the steps, in the order, that the stack held when
\* it started.
C13_RunsTheStackHeldAtStart ==
  Quiet =>
    \A t \in Touches :
      KindsRun(t) = Held(t) /\ PositionsRun(t) = Ids(Held(t))

\* C13, amended: whatever use() and clearStack() do while touch t is in
\* flight, the k-th step t runs is the k-th step the stack held when t
\* started, and t runs them all when each but the last calls its
\* continuation.
C13_RunsFromTheStackHeldAtStart ==
  \A t \in Touches :
    /\ PositionsRun(t) = Ids(PositionsRun(t))
    /\ Len(KindsRun(t)) <= Len(Held(t))
    /\ \A j \in 1..Len(KindsRun(t)) : KindsRun(t)[j] = Held(t)[j]
    /\ Quiet /\ (\A i \in 1..(Len(Held(t)) - 1) : NumCalls(Held(t)[i]) >= 1)
       => KindsRun(t) = Held(t)

\* A touch has run the two steps the stack held when it started, and is
\* over; the stack was cleared and given another step while it ran.
C13_Witness ==
  /\ Quiet
  /\ \E t \in Touches :
       /\ Len(Held(t)) = 2
       /\ KindsRun(t) = Held(t)
       /\ Len(stack[acts[t].node]) = 1
       /\ stack[acts[t].node][1] # Held(t)[1]

\* The body of a step of this kind throws at some point.
Throws(kind) == \E i \in 1..Len(Script(kind)) : Script(kind)[i] = "throw"

\* A step of this kind returns without ever calling its continuation.
ReturnsWithoutCalling(kind) == NumCalls(kind) = 0 /\ ~Throws(kind)

\* The first call of next() in touch t: its result is the result of the
\* node's middleware chain.
ChainOf(t) ==
  CHOOSE a \in 1..Len(acts) :
    /\ acts[a].kind = "next" /\ acts[a].t = t
    /\ \A b \in 1..(a - 1) : ~(acts[b].kind = "next" /\ acts[b].t = t)

Invoked(e) == Happened("execute", e)[1]

\* C15: once the signal of an executor's invocation is aborted, no further
\* step is started in it, a step already started runs on to its end, and
\* the abort raises no error: the result rejects only with the error of a
\* step that threw.  If the signal is aborted when the executor is invoked,
\* no step runs and the result resolves.
C15_AbortStopsSilently ==
  \A e \in Execs :
    /\ \A i \in When("abort", e) : \A j \in When("step", e) : j < i
    /\ Invoked(e).r = "aborted" =>
         /\ When("step", e) = {}
         /\ acts[e].status \in {"running", "resolved"}
    /\ acts[e].status = "rejected" =>
         /\ When("throw", e) # {}
         /\ Origin(acts[e].err).t = e
    /\ Quiet /\ When("throw", e) = {} =>
         /\ acts[e].status = "resolved"
         /\ ctx[acts[e].c] = Invoked(e).n + Added(KindsRun(e))

\* The signal was aborted while the first of two steps was waiting for its
\* timer: that step has gone on to add 10, the second step has not run, and
\* the result has resolved.
C15_Witness ==
  /\ Quiet
  /\ \E e \in Execs :
       /\ Invoked(e).r = "live"
       /\ Invoked(e).held = <<"slow", "pass">>
       /\ KindsRun(e) = <<"slow">>
       /\ When("abort", e) # {}
       /\ ctx[acts[e].c] = 10
       /\ acts[e].status = "resolved"


\* ------------------------------------------------------------------ C16

\* The nodes a node is linked to.
Targets(node) == {outputs[node][i].node : i \in 1..Len(outputs[node])}

\* The paths of links that start at a node, the node itself left out.
LinkPaths(node) ==
  {p \in UNION {[1..m -> Nodes] : m \in 0..Cardinality(Nodes)} :
     \A i \in 1..Len(p) : p[i] \in Targets(IF i = 1 THEN node ELSE p[i - 1])}

IdsOf(p) == [i \in 1..Len(p) |-> id[p[i]]]

\* The paths of keys of a nested mapping.
RECURSIVE KeyPaths(_)
KeyPaths(tree) ==
  {<<>>} \cup UNION {{<<k>> \o p : p \in KeyPaths(tree[k])} : k \in DOMAIN tree}

\* A mapping is the unwrapped tree of a node: it maps the id of each output
\* to that output's explore(false) result, and so on down every path of links.
TreeOf(node, tree) ==
  /\ DOMAIN tree = {id[out] : out \in Targets(node)}
  /\ \A out \in Targets(node) : tree[id[out]] = Explore(out, "false")
  /\ KeyPaths(tree) = {IdsOf(p) : p \in LinkPaths(node)}

ExploredAsSpecified ==
  /\ explored.wrap = None =>
        /\ DOMAIN explored.tree = {id[explored.node]}
        /\ TreeOf(explored.node, explored.tree[id[explored.node]])
        /\ explored.tree[id[explored.node]] = Explore(explored.node, "false")
  /\ explored.wrap = "false" => TreeOf(explored.node, explored.tree)

DistinctIds == \A n \in Nodes, m \in Nodes : n # m => id[n] # id[m]

\* C16 as stated: on every acyclic graph, explore() on a node R returns a
\* mapping with the single key R.id whose value maps the id of each output of
\* R to that output's explore(false) result, recursively, and explore(false)
\* returns that value without the outer level: every call of explore that
\* returns a tree returns the tree of the graph as it is at the call.
C16_ExploreNestsTheOutputs ==
  [][explored' # explored => ExploredAsSpecified']_vars

\* C16 amended: the same, on every acyclic graph whose nodes have pairwise
\* distinct ids.
C16_ExploreNestsTheOutputsOfDistinctIds ==
  [][(explored' # explored /\ DistinctIds) => ExploredAsSpecified']_vars

\* A -> B -> C with the ids A, B and C, explored from A with no argument:
\* {A: {B: {C: {}}}}.
C16_Witness ==
  /\ id = [n \in Nodes |-> n]
  /\ Targets("A") = {"B"} /\ Targets("B") = {"C"} /\ Targets("C") = {}
  /\ explored.node = "A" /\ explored.wrap = None
  /\ explored.tree =
       RecordSet(EmptyRecord, "A",
         RecordSet(EmptyRecord, "B", RecordSet(EmptyRecord, "C", EmptyRecord)))


\* ------------------------------------------------------------------ C18

\* Touch t has called the executor of its node's middleware.
HasChain(t) == \E a \in 1..Len(acts) : acts[a].kind = "next" /\ acts[a].t = t

\* C18: if the middleware chain of a node fails in a touch, the touch
\* rejects with the chain failure, evaluates no link predicate, touches no
\* linked node and invokes no sink.
C18_FailedChainSkipsFanOut ==
  \A t \in Touches :
    (HasChain(t) /\ acts[ChainOf(t)].status = "rejected") =>
      /\ Happened("pred", t) = <<>>
      /\ Happened("sink", t) = <<>>
      /\ Children(t) = {}
      /\ acts[t].status # "resolved"
      /\ acts[t].status = "rejected" => acts[t].err = acts[ChainOf(t)].err

\* A touch of a node that holds a throwing step, a link whose predicate
\* is true and a sink has rejected with the chain failure.
C18_Witness ==
  \E t \in Touches :
    /\ HasChain(t)
    /\ acts[ChainOf(t)].status = "rejected"
    /\ acts[t].status = "rejected"
    /\ acts[t].err.name = "PipelineError"
    /\ \E i \in 1..Len(outputs[acts[t].node]) :
          PredicateTrue(outputs[acts[t].node][i].pred, ctx[acts[t].c])
    /\ sinks[acts[t].node] # <<>>
    /\ Quiet


\* ------------------------------------------------------------------ C17

\* The nodes reached from a node by one link or more.
RECURSIVE ReachedIn(_, _)
ReachedIn(from, steps) ==
  IF steps = 0 THEN {}
  ELSE LET near == UNION {Targets(n) : n \in from}
       IN  near \cup ReachedIn(near, steps - 1)

OnCycle(node) == node \in ReachedIn({node}, Cardinality(Nodes))

\* Every activation predicate and every link predicate is 'always true'.
PredicatesTrue ==
  /\ \A n \in Nodes : shouldActivate[n] = Always
  /\ \A n \in Nodes : \A i \in 1..Len(outputs[n]) : outputs[n][i].pred = Always

\* The middleware chain of touch t has failed.
ChainFailed(t) == HasChain(t) /\ acts[ChainOf(t)].status = "rejected"

\* Touch t has touched every node its node is linked to.
TouchedAgain(t) ==
  \A target \in Targets(acts[t].node) :
    \E c \in Children(t) : acts[c].node = target

\* C17 as stated: with predicates that keep returning true, after one touch
\* of a node on a cycle no quiescent state is reached, and every touch that
\* has returned has touched the nodes its node is linked to again.
C17_CycleNeverQuiet ==
  \A t \in Roots :
    (PredicatesTrue /\ OnCycle(acts[t].node)) =>
      /\ ~Quiet
      /\ \A c \in Touches : acts[c].status \in Settled => TouchedAgain(c)

\* C17 amended: the same as long as no middleware chain of the touches
\* fails; a touch whose chain fails touches no node.
C17_CycleNeverQuietWhileChainsSucceed ==
  \A t \in Roots :
    (PredicatesTrue /\ OnCycle(acts[t].node)) =>
      /\ Quiet => \E c \in Touches : ChainFailed(c)
      /\ \A c \in Touches :
            (acts[c].status \in Settled /\ ~ChainFailed(c)) => TouchedAgain(c)

\* A touch of A, linked to B that is linked to A, has led to a touch of B,
\* that to a second touch of A, and that to a second touch of B, each after
\* a step of its node has run.
C17_Witness ==
  \E t1 \in Roots : \E t2 \in Children(t1) : \E t3 \in Children(t2) :
    \E t4 \in Children(t3) :
      /\ PredicatesTrue
      /\ acts[t1].node = "A" /\ acts[t2].node = "B"
      /\ acts[t3].node = "A" /\ acts[t4].node = "B"
      /\ Targets("A") = {"B"} /\ Targets("B") = {"A"}
      /\ Len(stack["A"]) = 1
      /\ \A t \in {t1, t2, t3} : acts[t].status = "resolved"


\* ------------------------------------------------------------------ C19

\* The step a is waiting for the result of its continuation: it is inside
\* the call of the continuation, or it awaits the promise the call returned
\* (await next() is the call, then the await of what it returned).
WaitsForContinuation(a) ==
  \/ acts[a].status = "suspended"
  \/ \E i \in 2..Len(callStack) : callStack[i] = a
  \/ /\ acts[a].pc = "run" /\ acts[a].wait # 0
     /\ acts[a].ip <= Len(Script(acts[a].step))
     /\ Script(acts[a].step)[acts[a].ip] \in {"await", "try"}
     /\ acts[a].ip > 1 /\ Script(acts[a].step)[acts[a].ip - 1] = "call"

\* The steps of touch t have started in stack order, from the first one on.
InStackOrder(t) ==
  /\ PositionsRun(t) = Ids(PositionsRun(t))
  /\ \A j \in 1..Len(KindsRun(t)) : KindsRun(t)[j] = acts[t].procs[j]

\* A step after the first one is started by a call of the continuation
\* that a step of the same invocation has made.
StartedByContinuation ==
  \A i \in 1..Len(callStack) :
    LET a == callStack[i]
    IN (acts[a].kind = "proc" /\ acts[a].k > 1
          /\ acts[a].pc = "run" /\ acts[a].ip = 1) =>
         /\ i + 2 <= Len(callStack)
         /\ acts[callStack[i + 1]].kind = "next"
         /\ acts[callStack[i + 2]].kind = "proc"
         /\ acts[callStack[i + 2]].t = acts[a].t
         /\ acts[callStack[i + 2]].wait = callStack[i + 1]

NoOverlap(t) ==
  \A a \in InProgress(t), b \in InProgress(t) :
    a < b => WaitsForContinuation(a)

\* C19 as stated: within one executor invocation the steps start strictly
\* in stack order, step k+1 only through a call of the continuation, and no
\* two steps are in progress together unless the earlier one is waiting for
\* the result of its continuation.
C19_StepsNeverOverlap ==
  /\ StartedByContinuation
  /\ \A t \in Touches : InStackOrder(t) /\ NoOverlap(t)

\* C19 amended: the order holds always; the steps never overlap when every
\* step of the chain awaits the continuation it calls.
C19_AwaitedStepsNeverOverlap ==
  /\ StartedByContinuation
  /\ \A t \in Touches :
       /\ InStackOrder(t)
       /\ (\A i \in 1..Len(acts[t].procs) : AwaitsContinuation(acts[t].procs[i]))
          => NoOverlap(t)

\* Two steps of one invocation are in progress: the second one waits for
\* its timer, the first one awaits its continuation.
C19_Witness ==
  \E t \in Touches :
    /\ acts[t].procs = <<"pass", "slow">>
    /\ \E a \in InProgress(t), b \in InProgress(t) :
         /\ acts[a].k = 1 /\ acts[b].k = 2
         /\ acts[a].status = "suspended"
         /\ acts[b].status = "sleeping"


\* ------------------------------------------------------------------ C20

\* All that touch t has started has settled.
Over(t) == \A a \in 1..Len(acts) : acts[a].t = t => acts[a].status \in Settled

\* Every step of the stack calls its continuation.
EveryStepCalls(steps) == \A i \in 1..Len(steps) : NumCalls(steps[i]) >= 1

\* The touches t and u of one node overlap: u was called while t was in
\* flight.
Overlap(t, u) ==
  /\ t < u
  /\ acts[t].node = acts[u].node
  /\ \E i \in When("touch", u) :
        \E j \in 1..Len(log) : j > i /\ log[j].t = t

\* C20: two touches of one node that overlap in time, with the same or with
\* different contexts, do not interfere: when every step calls its
\* continuation, each touch starts the steps of the stack in stack order,
\* no step twice, an activated touch has run every step once it is over,
\* and the node's stack is as it was when the touches were called.
C20_OverlappingTouchesDoNotInterfere ==
  \A t \in Roots, u \in Roots :
    (Overlap(t, u) /\ EveryStepCalls(Held(t))) =>
      \A v \in {t, u} :
        /\ stack[acts[v].node] = Held(v)
        /\ PositionsRun(v) = Ids(PositionsRun(v))
        /\ \A j \in 1..Len(KindsRun(v)) :
              j <= Len(Held(v)) /\ KindsRun(v)[j] = Held(v)[j]
        /\ (Over(v) /\ PredicateTrue(GivenPredicate(v), Called(v).n))
             => KindsRun(v) = Held(v)

\* Two touches of A, with different contexts, have each run the two steps
\* of the stack: the second was called while the first waited for the
\* timer of its first step, and started its own steps before the first
\* touch started its second step.
C20_Witness ==
  \E t \in Roots, u \in Roots :
    /\ Overlap(t, u)
    /\ Held(t) = <<"slow", "pass">>
    /\ Called(t).n # Called(u).n
    /\ Over(t) /\ Over(u)
    /\ KindsRun(t) = Held(t) /\ KindsRun(u) = Held(u)
    /\ \E i \in When("step", u) : \E j \in When("step", t) : i < j


\* ------------------------------------------------------------------ C23

\* The invocations of step k that touch t has made.
RunsOf(t, k) ==
  {a \in 1..Len(acts) : acts[a].kind = "proc" /\ acts[a].t = t /\ acts[a].k = k}

\* The calls of the continuation that the steps of touch t have made: the
\* invocations of next() other than the executor's own first one.
CallsOfContinuation(t) ==
  {a \in 1..Len(acts) : acts[a].kind = "next" /\ acts[a].t = t /\ a # ChainOf(t)}

\* C23: in one executor invocation each step is executed at most once, also
\* when a step calls its continuation more than once or catches the
\* failure of its continuation and calls it again; over all the calls of
\* the continuation the steps are taken in stack order, none a second time
\* and none before an earlier one.
C23_EachStepAtMostOnce ==
  \A t \in Touches :
    /\ \A k \in 1..Len(acts[t].procs) : Cardinality(RunsOf(t, k)) <= 1
    /\ \A i \in 1..Len(PositionsRun(t)), j \in 1..Len(PositionsRun(t)) :
          i < j => PositionsRun(t)[i] < PositionsRun(t)[j]
    /\ \A j \in 1..Len(PositionsRun(t)) :
          /\ PositionsRun(t)[j] = j
          /\ KindsRun(t)[j] = acts[t].procs[j]

\* The first of two steps has caught the failure of its continuation and
\* called it again: the second step has run once, and thrown, and the
\* second call has found no step left.
C23_Witness ==
  \E t \in Touches :
    /\ acts[t].procs = <<"retry", "throw">>
    /\ Over(t)
    /\ Cardinality(CallsOfContinuation(t)) = 2
    /\ Cardinality(RunsOf(t, 2)) = 1
    /\ Len(Happened("throw", t)) = 1
    /\ PositionsRun(t) = <<1, 2>>


\* ------------------------------------------------------------------ C24

\* A step of touch t has returned without calling its continuation, and no
\* step of the stack throws.
CutShort(t) ==
  /\ \E j \in When("step", t) : ReturnsWithoutCalling(log[j].x)
  /\ \A i \in 1..Len(Held(t)) : ~Throws(Held(t)[i])

\* Touch t has evaluated the predicate of every link of its node, touched
\* the linked nodes whose predicate is true, and invoked every sink.
FannedOut(t) ==
  LET node == acts[t].node
  IN /\ \A i \in 1..Len(outputs[node]) :
          /\ \E j \in When("pred", t) : log[j].x = outputs[node][i].node
          /\ PredicateTrue(outputs[node][i].pred, ctx[acts[t].c]) =>
                \E c \in Children(t) : acts[c].node = outputs[node][i].node
     /\ \A i \in 1..Len(sinks[node]) :
          \E j \in When("sink", t) : log[j].x = sinks[node][i]

\* C24: when a step returns without calling its continuation and no step
\* throws, the touch, once it has settled, has evaluated the link
\* predicates, touched the qualifying linked nodes and invoked every sink.
C24_ShortCircuitStillFansOut ==
  \A t \in Roots :
    (CutShort(t) /\ acts[t].status \in Settled) => FannedOut(t)

\* What holds of C24 in the code: the same when no link predicate and no
\* sink of the node throws.
ShortCircuitFansOutUnlessAThrow ==
  \A t \in Roots :
    /\ CutShort(t) /\ acts[t].status \in Settled
    /\ \A i \in 1..Len(outputs[acts[t].node]) :
          outputs[acts[t].node][i].pred # "throws"
    /\ \A i \in 1..Len(sinks[acts[t].node]) :
          SinkOutcome(sinks[acts[t].node][i]) # "throws"
    => FannedOut(t)


\* ------------------------------------------------------------------ C25

\* The evaluations, by touch t, of the predicate of its link to node.
LinkEvaluated(t, node) == {j \in When("pred", t) : log[j].x = node}

\* C25: the middleware of a linked node runs as a result of a fan-out only
\* if the predicate of the link and the linked node's own stored activation
\* predicate are both true of the context; the override given to the touch
\* of the source node is not handed on: the linked node is touched with no
\* override, whatever the source was touched with.
C25_LinkedNodeGatedTwice ==
  \A c \in Touches :
    acts[c].parent # 0 =>
      /\ Called(c).r = None /\ acts[c].override = None
      /\ Happened("step", c) # <<>> =>
            /\ \E j \in LinkEvaluated(acts[c].parent, acts[c].node) :
                  /\ log[j].r = "true"
                  /\ log[j].n = Called(c).n
                  /\ PredicateTrue(acts[acts[c].parent].outs[log[j].k].pred,
                                   log[j].n)
            /\ PredicateTrue(shouldActivate[acts[c].node], Called(c).n)

\* A touch of A with the override 'always true' and n = 5 has touched B
\* over a link whose predicate is n > 0, and B, whose own predicate is
\* 'always true', has run its step.
C25_Witness ==
  \E t \in Roots : \E c \in Children(t) :
    /\ Called(t).r = Always
    /\ Called(t).n = 5
    /\ acts[c].node = "B"
    /\ \E i \in 1..Len(acts[t].outs) :
          acts[t].outs[i].node = "B" /\ acts[t].outs[i].pred = "pos"
    /\ shouldActivate["B"] = Always
    /\ Happened("step", c) # <<>>


\* ------------------------------------------------------------------ C22

\* C22: within the fan-out of a touch, no step of a linked node starts
\* before every link predicate of the node has been evaluated and every
\* sink of the node has been invoked; so every link predicate and every
\* sink sees the context as the node's own middleware left it.
C22_FanOutBeforeLinkedSteps ==
  \A t \in Touches :
    /\ \A c \in Children(t) :
         \A i \in When("step", c) :
           /\ Cardinality({j \in When("pred", t) : j < i}) = Len(acts[t].outs)
           /\ Cardinality({j \in When("sink", t) : j < i}) = Len(sinks[acts[t].node])
    /\ \A i \in When("fanout", t) :
         \A j \in When("pred", t) \cup When("sink", t) : log[j].n = log[i].n

\* What the code does instead: the first step of the linked node B has
\* started, and changed the context, inside the fan-out of A, whose link
\* predicates and sinks do not throw; the sink of A, invoked after that, has
\* seen the context as B's step left it.
LinkedStepRunsInsideFanOut ==
  \E t \in Roots : \E c \in Children(t) :
    /\ \A i \in 1..Len(acts[t].outs) : acts[t].outs[i].pred = Always
    /\ sinks[acts[t].node] = <<"log">>
    /\ acts[t].status = "resolved"
    /\ \E i \in When("step", c) : \E j \in When("sink", t) :
          /\ i < j
          /\ log[j].n = Happened("fanout", t)[1].n + 10


\* ------------------------------------------------------------------ C26

\* The touch the embedding program has made is a touch of a node on a
\* cycle of links whose predicates are all 'always true', and the node's
\* own middleware chain has succeeded in it.
ChainSucceededOnCycle ==
  \E t \in Roots :
    /\ PredicatesTrue /\ OnCycle(acts[t].node)
    /\ HasChain(t) /\ acts[ChainOf(t)].status = "resolved"

\* C26: the caller's touch of a node that is linked to itself or lies on a
\* cycle settles: once the node's own middleware chain has succeeded the
\* touch resolves, whatever becomes of the touches it sets off.
C26_TouchOnCycleSettles ==
  ChainSucceededOnCycle ~> (\E t \in Roots : acts[t].status = "resolved")

\* The touch of A, linked to itself, has resolved after A's step has run,
\* while the touch of A it has set off is in flight and has itself set off
\* a third one.
C26_Witness ==
  \E t \in Roots : \E c \in Children(t) : \E d \in Children(c) :
    /\ ChainSucceededOnCycle
    /\ Targets("A") = {"A"}
    /\ Len(stack["A"]) = 1
    /\ acts[t].status = "resolved"
    /\ acts[d].status \notin Settled


\* ------------------------------------------------------------------ C21

\* A cycle of links can be reached from the node.
CycleReachable(node) ==
  \E m \in {node} \cup ReachedIn({node}, Cardinality(Nodes)) : OnCycle(m)

\* The call of explore in progress is a call on a node from which a cycle
\* can, or cannot, be reached.
ExploringCyclic ==
  exploring.status = "running" /\ CycleReachable(exploring.root)

ExploringAcyclic ==
  exploring.status = "running" /\ ~CycleReachable(exploring.root)

\* The longest path of links from the node fits in the call stack, the
\* frame of the node included.
FitsInCallStack(node) ==
  \A p \in LinkPaths(node) : Len(p) + 1 <= MaxCallStack

\* C21 as stated: a call of explore on a node from which a cycle can be
\* reached never terminates, and a call on a node whose reachable graph is
\* acyclic always terminates.
C21_ExploreEndsIffAcyclic ==
  /\ [][ExploringCyclic => exploring'.status = "running"]_vars
  /\ ExploringAcyclic ~> exploring.status # "running"

\* C21 amended: a call of explore on a node from which a cycle can be
\* reached never returns a tree: it recurses until the call stack is
\* exhausted and ends with the engine's RangeError.  A call on a node whose
\* reachable graph is acyclic always terminates, and returns the tree of
\* the graph when the longest path of links fits in the call stack.
C21_ExploreOverflowsIffCyclic ==
  /\ [][ExploringCyclic => exploring'.status \in {"running", "thrown"}]_vars
  /\ ExploringCyclic ~> exploring.status = "thrown"
  /\ ExploringAcyclic ~> exploring.status \in {"returned", "thrown"}
  /\ [][(ExploringAcyclic /\ FitsInCallStack(exploring.root)) =>
          /\ exploring'.status \in {"running", "returned"}
          /\ exploring'.status = "returned" =>
                explored' = [node |-> exploring.root, wrap |-> exploring.wrap,
                             tree |-> Explore(exploring.root, exploring.wrap)]]_vars

\* A call of explore on A, linked to itself, has ended with the RangeError.
C21_Witness ==
  /\ exploring.status = "thrown"
  /\ exploring.root = "A"
  /\ Targets("A") = {"A"}

====
